---- MODULE Spec2Model ----
(***************************************************************************)
(* Model of src/contract_review_service.py: the heuristic contract review  *)
(* pipeline of ContractReviewService.review                                *)
(*   _normalise_text -> _split_sentences -> _evaluate_clause (per clause)  *)
(*   -> _calculate_overall_risk -> returned dict.                          *)
(*                                                                         *)
(* Strings are sequences of characters.  A character is an atom written as *)
(* a TLA+ string: "a", " ", ".", ...  The Hangul syllables of the message  *)
(* templates are written by their romanisation with the prefix h_ (the     *)
(* module's lexer is ASCII only): the marker U+C2EC U+AC01 tested in       *)
(* _evaluate_clause is <<"h_sim", "h_gak">>.                               *)
(***************************************************************************)
EXTENDS Integers, Sequences, FiniteSets, TLC

VARIABLES
    clauses,        \* self._clauses: the configured ClauseConfig list
    contract_text,  \* per call: the argument of review()
    pc,             \* per call: the next statement of review() to run
    normalised,     \* per call: local variable of review()
    sentences,      \* per call: local variable of review()
    clause_results, \* per call: the list being built by the comprehension
    overall_risk,   \* per call: local variable of review()
    result          \* per call: the dict returned by review()

vars == <<clauses, contract_text, pc, normalised, sentences, clause_results,
          overall_risk, result>>

---------------------------------------------------------------------------
(* Character classes (Python str semantics: \s, \w, str.lower).            *)

Whitespace == {" ", "\t", "\n"}

Terminators == {".", "!", "?"}

LowerLetters == {"a", "b"}

UpperLetters == {"A", "B"}

Hangul == {"h_ju", "h_ui", "h_pyo", "h_hyeon", "h_i", "h_po", "h_ham", "h_doe",
           "h_eo", "h_iss", "h_wi", "h_heom", "h_jeung", "h_ga", "h_hal",
           "h_su", "h_seub", "h_ni", "h_da", "h_jo", "h_hang", "h_gam",
           "h_ji", "h_anh", "h_ass", "h_yang", "h_ho", "h_geon", "h_gae",
           "h_seon", "h_doeb", "h_sim", "h_gak"}

WordChars == LowerLetters \cup UpperLetters \cup Hangul \cup {"_", "0", "1"}

IsSpace(ch) == ch \in Whitespace

IsWordChar(ch) == ch \in WordChars

IsTerminator(ch) == ch \in Terminators

ToLower == [ch \in UpperLetters |-> IF ch = "A" THEN "a" ELSE "b"]

\* str.lower()
lower(s) == [i \in 1..Len(s) |-> IF s[i] \in UpperLetters THEN ToLower[s[i]] ELSE s[i]]

SetMin(S) == CHOOSE x \in S : \A y \in S : x <= y

SetMax(S) == CHOOSE x \in S : \A y \in S : y <= x

\* str.strip()
strip(s) ==
    LET idx == {i \in 1..Len(s) : ~IsSpace(s[i])}
    IN  IF idx = {} THEN <<>> ELSE SubSeq(s, SetMin(idx), SetMax(idx))

\* the last position of the maximal run of whitespace that starts at i
RunEnd(s, i) ==
    SetMax({j \in i..Len(s) : \A k \in i..j : IsSpace(s[k])})

\* the last position of the maximal run of non-whitespace that starts at i
WordEnd(s, i) ==
    SetMax({j \in i..Len(s) : \A k \in i..j : ~IsSpace(s[k])})

\* re.sub(r"\s+", " ", s)
RECURSIVE sub_spaces(_, _)
sub_spaces(s, i) ==
    IF i > Len(s) THEN <<>>
    ELSE IF IsSpace(s[i]) THEN <<" ">> \o sub_spaces(s, RunEnd(s, i) + 1)
    ELSE <<s[i]>> \o sub_spaces(s, i + 1)

normalise_text(text) == sub_spaces(lower(strip(text)), 1)

\* re.split(r"(?<=[.!?])\s+", s): start is where the current piece began,
\* i the position the scan has reached
RECURSIVE re_split(_, _, _)
re_split(s, start, i) ==
    IF i > Len(s) THEN << SubSeq(s, start, Len(s)) >>
    ELSE IF i > 1 /\ IsTerminator(s[i - 1]) /\ IsSpace(s[i])
    THEN << SubSeq(s, start, i - 1) >> \o re_split(s, RunEnd(s, i) + 1, RunEnd(s, i) + 1)
    ELSE re_split(s, start, i + 1)

NonEmpty(s) == s # <<>>

split_sentences(text) ==
    LET raw_sentences == re_split(text, 1, 1)
    IN  SelectSeq([i \in 1..Len(raw_sentences) |-> strip(raw_sentences[i])], NonEmpty)

\* str.split(): the maximal runs of non-whitespace, from position i on
RECURSIVE str_split(_, _)
str_split(s, i) ==
    IF i > Len(s) THEN <<>>
    ELSE IF IsSpace(s[i]) THEN str_split(s, i + 1)
    ELSE << SubSeq(s, i, WordEnd(s, i)) >> \o str_split(s, WordEnd(s, i) + 1)

\* `sub in s` on str
Contains(s, sub) ==
    \E p \in 0..(Len(s) - Len(sub)) : SubSeq(s, p + 1, p + Len(sub)) = sub

---------------------------------------------------------------------------
(* Keyword patterns.  A compiled pattern is a record: kind names the shape *)
(* of the regular expression, parts its escaped literals.                  *)

\* build_keyword_pattern without the early return for an empty keyword: the
\* empty keyword is escaped and compiled like a keyword of punctuation
build_keyword_pattern_no_empty_check(keyword) ==
    LET kw == lower(strip(keyword))
    IN  IF \E i \in 1..Len(kw) : IsSpace(kw[i])
        THEN [kind |-> "phrase", parts |-> str_split(kw, 1)]
        ELSE IF \E i \in 1..Len(kw) : IsWordChar(kw[i])
        THEN [kind |-> "word", parts |-> <<kw>>]
        ELSE [kind |-> "literal", parts |-> <<kw>>]

build_keyword_pattern(keyword) ==
    LET kw == lower(strip(keyword))
    IN  IF kw = <<>> THEN [kind |-> "empty_line", parts |-> <<>>]
        ELSE IF \E i \in 1..Len(kw) : IsSpace(kw[i])
        THEN [kind |-> "phrase", parts |-> str_split(kw, 1)]
        ELSE IF \E i \in 1..Len(kw) : IsWordChar(kw[i])
        THEN [kind |-> "word", parts |-> <<kw>>]
        ELSE [kind |-> "literal", parts |-> <<kw>>]

\* \b at offset p of s (between s[p] and s[p+1])
WordBoundary(s, p) ==
    LET before == p >= 1 /\ IsWordChar(s[p])
        after  == p + 1 <= Len(s) /\ IsWordChar(s[p + 1])
    IN  before # after

\* parts[1] \s+ parts[2] \s+ ... matched from offset p: the offset where the
\* match ends, or -1
RECURSIVE MatchParts(_, _, _)
MatchParts(s, p, parts) ==
    LET q == p + Len(parts[1])
    IN  IF q > Len(s) \/ SubSeq(s, p + 1, q) # parts[1] THEN -1
        ELSE IF Len(parts) = 1 THEN q
        ELSE IF q + 1 > Len(s) \/ ~IsSpace(s[q + 1]) THEN -1
        ELSE MatchParts(s, RunEnd(s, q + 1), Tail(parts))

\* pattern.search(sentence)
pattern_search(pattern, sentence) ==
    CASE pattern.kind = "empty_line" ->
            \* ^$ : the empty string, or a lone line break
            sentence = <<>> \/ sentence = <<"\n">>
      [] pattern.kind = "literal" -> Contains(sentence, pattern.parts[1])
      [] OTHER ->
            \E p \in 0..Len(sentence) :
                /\ WordBoundary(sentence, p)
                /\ MatchParts(sentence, p, pattern.parts) >= 0
                /\ WordBoundary(sentence, MatchParts(sentence, p, pattern.parts))

---------------------------------------------------------------------------
(* Message templates (f-strings of _evaluate_clause, _evaluate_warnings).  *)

\* the marker tested by `in warning` in _evaluate_clause
SevereMarker == <<"h_sim", "h_gak">>

WarningMessage(warning_keyword) ==
    <<"h_ju", "h_ui", ":", " ", "'">> \o warning_keyword \o
    <<"'", " ", "h_pyo", "h_hyeon", "h_i", " ", "h_po", "h_ham", "h_doe", "h_eo",
      " ", "h_iss", "h_eo", " ", "h_wi", "h_heom", "h_i", " ", "h_jeung", "h_ga",
      "h_hal", " ", "h_su", " ", "h_iss", "h_seub", "h_ni", "h_da", ".">>

MissingMessage(name) ==
    name \o <<" ", "h_jo", "h_hang", "h_i", " ", "h_gam", "h_ji", "h_doe", "h_ji",
              " ", "h_anh", "h_ass", "h_seub", "h_ni", "h_da", ".">>

\* ", ".join(hits)
RECURSIVE join(_)
join(hits) ==
    IF hits = <<>> THEN <<>>
    ELSE IF Len(hits) = 1 THEN hits[1]
    ELSE hits[1] \o <<",", " ">> \o join(Tail(hits))

PositiveMessage(positive_hits) ==
    <<"h_yang", "h_ho", ":", " ">> \o join(positive_hits) \o
    <<" ", "h_pyo", "h_hyeon", "h_i", " ", "h_iss", "h_eo", " ", "h_jo", "h_geon",
      "h_i", " ", "h_gae", "h_seon", "h_doeb", "h_ni", "h_da", ".">>

---------------------------------------------------------------------------
(* ClauseConfig, ClauseResult and the clause evaluation.                   *)

ClauseConfig(name, keywords, missing_risk, warning_keywords, positive_keywords) ==
    [name |-> name, keywords |-> keywords, missing_risk |-> missing_risk,
     summary |-> <<"s">> \o name, recommendation |-> <<"r">> \o name,
     warning_keywords |-> warning_keywords, positive_keywords |-> positive_keywords]

\* the inner loop leaving a sentence at its first warning hit
RECURSIVE sentence_warnings_first_hit(_, _)
sentence_warnings_first_hit(warning_keywords, sentence) ==
    IF warning_keywords = <<>> THEN <<>>
    ELSE IF Contains(sentence, Head(warning_keywords))
    THEN << WarningMessage(Head(warning_keywords)) >>
    ELSE sentence_warnings_first_hit(Tail(warning_keywords), sentence)

\* the inner loop of _evaluate_warnings over config.warning_keywords, for one
\* sentence
RECURSIVE sentence_warnings(_, _)
sentence_warnings(warning_keywords, sentence) ==
    IF warning_keywords = <<>> THEN <<>>
    ELSE (IF Contains(sentence, Head(warning_keywords))
          THEN << WarningMessage(Head(warning_keywords)) >>
          ELSE <<>>)
         \o sentence_warnings(Tail(warning_keywords), sentence)

\* positive_hits and the note built from them, for one sentence
sentence_positives(positive_keywords, sentence) ==
    LET positive_hits == SelectSeq(positive_keywords, LAMBDA kw : Contains(sentence, kw))
    IN  IF positive_hits # <<>> THEN << PositiveMessage(positive_hits) >> ELSE <<>>

RECURSIVE evaluate_warnings(_, _)
evaluate_warnings(config, sents) ==
    IF sents = <<>> THEN [warnings |-> <<>>, positives |-> <<>>]
    ELSE LET rest == evaluate_warnings(config, Tail(sents))
         IN  [warnings  |-> sentence_warnings(config.warning_keywords, Head(sents))
                            \o rest.warnings,
              positives |-> sentence_positives(config.positive_keywords, Head(sents))
                            \o rest.positives]

\* `matched` collected keyword by keyword instead of sentence by sentence
RECURSIVE matched_sentences_by_keyword(_, _)
matched_sentences_by_keyword(config, sents) ==
    IF config.keywords = <<>> THEN <<>>
    ELSE SelectSeq(sents, LAMBDA sentence :
             pattern_search(build_keyword_pattern(Head(config.keywords)), sentence))
         \o matched_sentences_by_keyword(
                [config EXCEPT !.keywords = Tail(config.keywords)], sents)

\* the list `matched` of _evaluate_clause
matched_sentences(config, sents) ==
    LET keyword_patterns ==
            [i \in 1..Len(config.keywords) |-> build_keyword_pattern(config.keywords[i])]
    IN  SelectSeq(sents, LAMBDA sentence :
            \E i \in 1..Len(keyword_patterns) : pattern_search(keyword_patterns[i], sentence))

\* the initial risk taken as "low" whether or not a sentence matched
initial_risk_always_low(config, matched) == "low"

\* the initial risk taken from the configuration whether or not a sentence matched
initial_risk_always_missing(config, matched) == config.missing_risk

\* risk = "low" if matched else config.missing_risk
initial_risk(config, matched) ==
    IF matched # <<>> THEN "low" ELSE config.missing_risk

\* the escalation of risk by the warnings of a present clause
escalated_risk(risk, warnings) ==
    IF warnings # <<>> /\ risk # "high"
    THEN IF \E i \in 1..Len(warnings) : Contains(warnings[i], SevereMarker)
         THEN "high"
         ELSE IF risk = "low" THEN "medium" ELSE risk
    ELSE risk

evaluate_clause(config, sents) ==
    LET matched == matched_sentences(config, sents)
        found   == evaluate_warnings(config, matched)
        risk    == initial_risk(config, matched)
    IN  [name |-> config.name,
         present |-> matched # <<>>,
         risk_level |-> IF matched # <<>> THEN escalated_risk(risk, found.warnings) ELSE risk,
         matched_sentences |-> matched,
         issues |-> IF matched = <<>> THEN << MissingMessage(config.name) >>
                    ELSE found.warnings,
         notes |-> IF matched # <<>> THEN found.positives ELSE <<>>,
         recommendation |-> config.recommendation,
         summary |-> config.summary]

\* ClauseResult.to_dict
to_dict(r) ==
    [name |-> r.name, present |-> r.present, risk_level |-> r.risk_level,
     matched_sentences |-> r.matched_sentences, issues |-> r.issues,
     notes |-> r.notes, recommendation |-> r.recommendation, summary |-> r.summary]

\* the dict risk_levels of _calculate_overall_risk, in insertion order
risk_levels == << <<"low", 0>>, <<"medium", 1>>, <<"high", 2>> >>

\* risk_levels.get(level, 0)
risk_score(level) ==
    IF \E i \in 1..Len(risk_levels) : risk_levels[i][1] = level
    THEN (CHOOSE e \in {risk_levels[i] : i \in 1..Len(risk_levels)} : e[1] = level)[2]
    ELSE 0

calculate_overall_risk(results) ==
    LET scores == {risk_score(results[i].risk_level) : i \in 1..Len(results)}
        max_score == IF scores = {} THEN 0 ELSE SetMax(scores)
        hits == {i \in 1..Len(risk_levels) : risk_levels[i][2] = max_score}
    IN  IF hits # {} THEN risk_levels[SetMin(hits)][1] ELSE "low"

---------------------------------------------------------------------------
(* Inputs: clause configurations handed to __init__ and contract texts.    *)

\* the longest contract text, counted in tokens
MaxTextLen == 4

\* the number of overlapping review() calls of the concurrent specification
ConcCalls == 2

\* every concatenation of at most n of the tokens
RECURSIVE TextsOver(_, _)
TextsOver(tokens, n) ==
    IF n = 0 THEN { <<>> }
    ELSE LET shorter == TextsOver(tokens, n - 1)
         IN  shorter \cup { t \o tok : t \in shorter, tok \in tokens }

\* every contiguous part of a table of configurations, the empty list included
SubLists(table) ==
    { SubSeq(table, i, j) : i \in 1..(Len(table) + 1), j \in 0..Len(table) }

\* a table of configurations over the characters a A - . and the blank
ConfigTable ==
    << ClauseConfig(<<"T">>, << <<"A">>, <<"-">> >>, "high",
                    << <<"a">>, <<"a", ".">> >>, << <<"-">>, <<"a">> >>),
       ClauseConfig(<<"C">>, << <<"-", "a">> >>, "medium",
                    << <<"-">>, <<"-">> >>, <<>>),
       ClauseConfig(<<"L">>, << <<>>, <<" ">> >>, "critical",
                    << <<"a">> >>, << <<"a">> >>),
       ClauseConfig(<<"P">>, <<>>, "low",
                    << <<"a">> >>, <<>>),
       ClauseConfig(<<"I">>, << <<"a", " ", " ", "a">> >>, "medium",
                    << <<>>, <<"A">> >>, << <<"a", " ">> >>) >>

Tokens == { <<"a">>, <<"A">>, <<"-">>, <<".">>, <<" ">> }

\* a table whose warning phrases hold the marker of a severe warning
SevereTable ==
    << ClauseConfig(<<"S">>, << <<"a">> >>, "high",
                    << SevereMarker >>, << <<"a">> >>),
       ClauseConfig(<<"M">>, << SevereMarker >>, "low",
                    << <<"a">>, <<"a", " ">> \o SevereMarker >>, <<>>),
       ClauseConfig(<<"N">>, << <<"a">>, <<"A", "\t", "a">> >>, "high",
                    << <<"a", ".">>, <<"h_sim">> >>, << SevereMarker >>) >>

SevereTokens == { <<"a">>, SevereMarker, <<".">>, <<"\n">> }

ConcTable == SubSeq(ConfigTable, 1, 2)

ConcTexts ==
    { <<>>,
      <<"A", ".", " ", "a", "-", "a">>,
      <<" ", "a", "a", " ", "-", "\n">> }

---------------------------------------------------------------------------
(* The state machine: review() is run statement by statement, each call on *)
(* its own local variables.                                                *)

Calls == DOMAIN pc

InitCalls(callers, clause_lists, texts) ==
    /\ clauses \in clause_lists
    /\ contract_text \in [callers -> texts]
    /\ pc = [c \in callers |-> "normalise"]
    /\ normalised = [c \in callers |-> <<>>]
    /\ sentences = [c \in callers |-> <<>>]
    /\ clause_results = [c \in callers |-> <<>>]
    /\ overall_risk = [c \in callers |-> ""]
    /\ result = [c \in callers |-> [overall_risk |-> "", clauses |-> <<>>]]

Init == InitCalls({1}, SubLists(ConfigTable), TextsOver(Tokens, MaxTextLen))

InitSevere == InitCalls({1}, SubLists(SevereTable), TextsOver(SevereTokens, MaxTextLen))

InitConc == InitCalls(1..ConcCalls, SubLists(ConcTable), ConcTexts)

\* normalised = self._normalise_text(contract_text)
Normalise(c) ==
    /\ pc[c] = "normalise"
    /\ normalised' = [normalised EXCEPT ![c] = normalise_text(contract_text[c])]
    /\ pc' = [pc EXCEPT ![c] = "split"]
    /\ UNCHANGED <<clauses, contract_text, sentences, clause_results, overall_risk, result>>

\* the sentences kept in one attribute of the service, shared by the calls
SplitSentencesShared(c) ==
    /\ pc[c] = "split"
    /\ sentences' = [d \in Calls |-> split_sentences(normalised[c])]
    /\ pc' = [pc EXCEPT ![c] = "evaluate"]
    /\ UNCHANGED <<clauses, contract_text, normalised, clause_results, overall_risk, result>>

\* sentences = self._split_sentences(normalised)
SplitSentences(c) ==
    /\ pc[c] = "split"
    /\ sentences' = [sentences EXCEPT ![c] = split_sentences(normalised[c])]
    /\ pc' = [pc EXCEPT ![c] = "evaluate"]
    /\ UNCHANGED <<clauses, contract_text, normalised, clause_results, overall_risk, result>>

\* one iteration of [self._evaluate_clause(clause, sentences) for clause in self._clauses]
EvaluateClause(c) ==
    /\ pc[c] = "evaluate"
    /\ Len(clause_results[c]) < Len(clauses)
    /\ clause_results' = [clause_results EXCEPT ![c] =
           Append(@, evaluate_clause(clauses[Len(@) + 1], sentences[c]))]
    /\ UNCHANGED <<clauses, contract_text, pc, normalised, sentences, overall_risk, result>>

\* overall_risk = self._calculate_overall_risk(clause_results)
CalculateOverallRisk(c) ==
    /\ pc[c] = "evaluate"
    /\ Len(clause_results[c]) = Len(clauses)
    /\ overall_risk' = [overall_risk EXCEPT ![c] = calculate_overall_risk(clause_results[c])]
    /\ pc' = [pc EXCEPT ![c] = "return"]
    /\ UNCHANGED <<clauses, contract_text, normalised, sentences, clause_results, result>>

\* return {"overall_risk": ..., "clauses": [result.to_dict() for ...]}
Return(c) ==
    /\ pc[c] = "return"
    /\ result' = [result EXCEPT ![c] =
           [overall_risk |-> overall_risk[c],
            clauses |-> [i \in 1..Len(clause_results[c]) |-> to_dict(clause_results[c][i])]]]
    /\ pc' = [pc EXCEPT ![c] = "done"]
    /\ UNCHANGED <<clauses, contract_text, normalised, sentences, clause_results, overall_risk>>

Next ==
    \/ \E c \in Calls : Normalise(c)
    \/ \E c \in Calls : SplitSentences(c)
    \/ \E c \in Calls : EvaluateClause(c)
    \/ \E c \in Calls : CalculateOverallRisk(c)
    \/ \E c \in Calls : Return(c)

Spec == Init /\ [][Next]_vars

SpecSevere == InitSevere /\ [][Next]_vars

SpecConc == InitConc /\ [][Next]_vars

Done(c) == pc[c] = "done"

\* review() run alone, from the argument to the returned dict
review(clause_list, text) ==
    LET sents == split_sentences(normalise_text(text))
        results == [i \in 1..Len(clause_list) |-> evaluate_clause(clause_list[i], sents)]
    IN  [overall_risk |-> calculate_overall_risk(results),
         clauses |-> [i \in 1..Len(results) |-> to_dict(results[i])]]

---------------------------------------------------------------------------
(* The claims.                                                             *)

\* the order low < medium < high, as the pairs x <= y
RiskLeq ==
    { <<"low", "low">>, <<"low", "medium">>, <<"low", "high">>,
      <<"medium", "medium">>, <<"medium", "high">>, <<"high", "high">> }

\* m is the maximum of the levels under the order, "low" for no level at all
IsMaximumOf(m, levels) ==
    IF levels = {} THEN m = "low"
    ELSE m \in levels /\ \A l \in levels : <<l, m>> \in RiskLeq

\* the keyword as it is compared: trimmed, lower-cased, its blanks single
KeywordText(keyword) == normalise_text(keyword)

HasWordChar(s) == \E i \in 1..Len(s) : IsWordChar(s[i])

IsBlank(s) == \A i \in 1..Len(s) : IsSpace(s[i])

\* the keyword matches the sentence, as _evaluate_clause tests it
KeywordMatches(keyword, sentence) ==
    pattern_search(build_keyword_pattern(keyword), sentence)

\* some occurrence of the keyword in the sentence has no word character right
\* before it and none right after it
CleanOccurrence(keyword, sentence) ==
    LET kw == KeywordText(keyword)
    IN  \E p \in 0..(Len(sentence) - Len(kw)) :
            /\ SubSeq(sentence, p + 1, p + Len(kw)) = kw
            /\ (p = 0 \/ ~IsWordChar(sentence[p]))
            /\ (p + Len(kw) = Len(sentence) \/ ~IsWordChar(sentence[p + Len(kw) + 1]))

\* the warning hits of a clause: <<n, k>> where warning keyword k is a plain
\* substring of matched sentence n
WarningHits(config, matched) ==
    { h \in (1..Len(matched)) \X (1..Len(config.warning_keywords)) :
        Contains(matched[h[1]], config.warning_keywords[h[2]]) }

\* the place of hit h among the hits, by sentence and then by keyword
HitRank(hits, h) ==
    Cardinality({ g \in hits : g[1] < h[1] \/ (g[1] = h[1] /\ g[2] <= h[2]) })

\* C1: the overall_risk a review returns is the maximum, under
\* low < medium < high, of the risk_level values of its clause results, and
\* "low" when there is no clause.
C1_OverallRiskIsMaximum ==
    \A c \in Calls :
        Done(c) =>
            IsMaximumOf(result[c].overall_risk,
                        { result[c].clauses[i].risk_level : i \in 1..Len(result[c].clauses) })

\* C2: a clause none of whose keywords matches any sentence is reported with
\* present = false, risk_level = missing_risk, no matched sentence, no note and
\* exactly one issue, the "not detected" message of its name.
C2_AbsentClause ==
    \A c \in Calls :
        Done(c) =>
            \A i \in 1..Len(clauses) :
                LET config == clauses[i]
                    r == result[c].clauses[i]
                IN  (\A n \in 1..Len(sentences[c]) : \A k \in 1..Len(config.keywords) :
                        ~KeywordMatches(config.keywords[k], sentences[c][n]))
                    => /\ r.present = FALSE
                       /\ r.risk_level = config.missing_risk
                       /\ r.matched_sentences = <<>>
                       /\ r.notes = <<>>
                       /\ r.issues = << MissingMessage(config.name) >>

\* a clause with keywords is absent from a text that has sentences, and keeps a
\* missing_risk that is not "low"
C2_Witness ==
    \E c \in Calls : \E i \in 1..Len(clauses) :
        /\ Done(c)
        /\ sentences[c] # <<>>
        /\ \E k \in 1..Len(clauses[i].keywords) : ~IsBlank(clauses[i].keywords[k])
        /\ clauses[i].missing_risk = "high"
        /\ ~result[c].clauses[i].present

\* C3: the risk of a present clause is low without a warning hit, medium with
\* warning hits none of which carries the severe marker, and high as soon as
\* one warning carries it, whatever missing_risk and the positive phrases are.
C3_PresentClauseRisk ==
    \A c \in Calls :
        Done(c) =>
            \A i \in 1..Len(clauses) :
                LET config == clauses[i]
                    r == result[c].clauses[i]
                    hits == WarningHits(config, r.matched_sentences)
                    severe == \E h \in hits :
                        Contains(WarningMessage(config.warning_keywords[h[2]]), SevereMarker)
                IN  r.present =>
                        r.risk_level = IF hits = {} THEN "low"
                                       ELSE IF severe THEN "high" ELSE "medium"

\* one review in which a clause with missing_risk low is present at high by a
\* severe warning next to a plain one, and a clause with missing_risk high is
\* present at medium with a positive note
C3_Witness ==
    \E c \in Calls : \E i, j \in 1..Len(clauses) :
        /\ Done(c)
        /\ result[c].clauses[i].present
        /\ clauses[i].missing_risk = "low"
        /\ result[c].clauses[i].risk_level = "high"
        /\ Len(result[c].clauses[i].issues) = 2
        /\ result[c].clauses[j].present
        /\ clauses[j].missing_risk = "high"
        /\ result[c].clauses[j].risk_level = "medium"
        /\ result[c].clauses[j].notes # <<>>

\* C4: a keyword that contains a word character matches a sentence only by an
\* occurrence with no word character right before and right after it: every
\* matched sentence of a clause has such an occurrence of one of its keywords
\* (or is matched by a keyword without word characters).
C4_NoSubstringCollision ==
    \A c \in Calls :
        Done(c) =>
            \A i \in 1..Len(clauses) :
                LET matched == result[c].clauses[i].matched_sentences
                IN  \A n \in 1..Len(matched) :
                        \E k \in 1..Len(clauses[i].keywords) :
                            LET keyword == clauses[i].keywords[k]
                            IN  /\ KeywordMatches(keyword, matched[n])
                                /\ HasWordChar(keyword) => CleanOccurrence(keyword, matched[n])

\* C5: no review runs with a missing_risk outside low, medium, high, and so
\* every risk_level and every overall_risk of a review is one of the three.
C5_RiskLevelsValid ==
    \A c \in Calls :
        Done(c) =>
            /\ \A i \in 1..Len(clauses) :
                   clauses[i].missing_risk \in {"low", "medium", "high"}
            /\ \A i \in 1..Len(result[c].clauses) :
                   result[c].clauses[i].risk_level \in {"low", "medium", "high"}
            /\ result[c].overall_risk \in {"low", "medium", "high"}

\* C6: however the statements of overlapping review calls interleave, no call
\* changes the configured clause list, each call returns what its text yields
\* when reviewed alone, and two calls on the same text return the same result.
C6_NoHiddenState ==
    /\ [](\A c \in Calls :
            Done(c) =>
                /\ result[c] = review(clauses, contract_text[c])
                /\ \A d \in Calls :
                       (Done(d) /\ contract_text[d] = contract_text[c])
                           => result[d] = result[c])
    /\ [][clauses' = clauses]_vars

\* two calls on different texts have both returned, with different results,
\* on a service that has clauses
C6_Witness ==
    /\ Done(1) /\ Done(2)
    /\ contract_text[1] # contract_text[2]
    /\ result[1] # result[2]
    /\ result[1].overall_risk # result[2].overall_risk

\* C7: on an empty or whitespace-only text the sentence sequence is empty,
\* every configured clause is absent with its missing_risk, and overall_risk
\* is the maximum of the configured missing_risk values.
C7_BlankText ==
    \A c \in Calls :
        (Done(c) /\ IsBlank(contract_text[c])) =>
            /\ sentences[c] = <<>>
            /\ Len(result[c].clauses) = Len(clauses)
            /\ \A i \in 1..Len(clauses) :
                   /\ ~result[c].clauses[i].present
                   /\ result[c].clauses[i].risk_level = clauses[i].missing_risk
            /\ IsMaximumOf(result[c].overall_risk,
                           { clauses[i].missing_risk : i \in 1..Len(clauses) })

\* C8: matched_sentences is the subsequence of the sentences that satisfy at
\* least one keyword matcher, each once and in the original order; present
\* holds exactly when it is not empty; the clause results follow the order of
\* the configured clauses.
C8_MatchedSubsequence ==
    \A c \in Calls :
        Done(c) =>
            /\ Len(result[c].clauses) = Len(clauses)
            /\ \A i \in 1..Len(clauses) :
                LET config == clauses[i]
                    r == result[c].clauses[i]
                    sents == sentences[c]
                    idx == { n \in 1..Len(sents) :
                               \E k \in 1..Len(config.keywords) :
                                   KeywordMatches(config.keywords[k], sents[n]) }
                IN  /\ r.name = config.name
                    /\ Len(r.matched_sentences) = Cardinality(idx)
                    /\ \A n \in idx :
                           r.matched_sentences[Cardinality({ m \in idx : m <= n })] = sents[n]
                    /\ r.present <=> (r.matched_sentences # <<>>)

\* of two sentences the first does not match and the second is matched by two
\* keywords of the clause, and is listed once
C8_Witness ==
    \E c \in Calls : \E i \in 1..Len(clauses) :
        /\ Done(c)
        /\ Len(sentences[c]) = 2
        /\ result[c].clauses[i].matched_sentences = << sentences[c][2] >>
        /\ Len(clauses[i].keywords) = 2
        /\ \A k \in 1..2 : KeywordMatches(clauses[i].keywords[k], sentences[c][2])

\* the part of C9 that the code has: issues holds one message per warning
\* hit, the message of the hit's phrase, in the order of the matched sentences
\* (and of warning_keywords within a sentence), and nothing else
OneMessagePerHit(config, r) ==
    LET hits == WarningHits(config, r.matched_sentences)
    IN  /\ Len(r.issues) = Cardinality(hits)
        /\ \A h \in hits :
               r.issues[HitRank(hits, h)] = WarningMessage(config.warning_keywords[h[2]])

\* C9 as stated: for a present clause, issues holds one message per warning
\* hit, in matched-sentence order, and the messages are pairwise distinct.
C9_DistinctMessagePerHit ==
    \A c \in Calls :
        Done(c) =>
            \A i \in 1..Len(clauses) :
                LET r == result[c].clauses[i]
                IN  r.present =>
                        /\ OneMessagePerHit(clauses[i], r)
                        /\ \A k, l \in 1..Len(r.issues) : k # l => r.issues[k] # r.issues[l]

\* C9 as amended: for a present clause, issues holds one message per warning
\* hit, in matched-sentence order, each naming the phrase of its hit; two of
\* the messages are equal exactly when their hits are on equal phrases.
C9_MessagePerHit ==
    \A c \in Calls :
        Done(c) =>
            \A i \in 1..Len(clauses) :
                LET config == clauses[i]
                    r == result[c].clauses[i]
                    hits == WarningHits(config, r.matched_sentences)
                IN  r.present =>
                        /\ OneMessagePerHit(config, r)
                        /\ \A h \in hits :
                               Contains(r.issues[HitRank(hits, h)],
                                        <<"'">> \o config.warning_keywords[h[2]] \o <<"'">>)
                        /\ \A g, h \in hits :
                               (r.issues[HitRank(hits, g)] = r.issues[HitRank(hits, h)])
                                   <=> (config.warning_keywords[g[2]] = config.warning_keywords[h[2]])

\* two matched sentences hold the same warning phrase, the first of them a
\* second phrase as well, and issues holds three messages, one of them twice
C9_Witness ==
    \E c \in Calls : \E i \in 1..Len(clauses) :
        LET r == result[c].clauses[i]
            hits == WarningHits(clauses[i], r.matched_sentences)
        IN  /\ Done(c)
            /\ Len(r.matched_sentences) = 2
            /\ Len(r.issues) = 3
            /\ \E g, h \in hits :
                   /\ g[1] # h[1]
                   /\ g[2] = h[2]
                   /\ r.issues[HitRank(hits, g)] = r.issues[HitRank(hits, h)]

\* keywords that are empty or hold only whitespace
BlankKeywords == { <<>>, <<" ">>, <<"\t", " ">>, <<"\n">> }

\* C10: the matcher of an empty or whitespace-only keyword is satisfied by no
\* sentence of the splitter, and a clause whose keywords are all such (or that
\* has no keyword) is absent, with risk_level = missing_risk.
C10_EmptyKeywordMatchesNothing ==
    \A c \in Calls :
        /\ \A n \in 1..Len(sentences[c]) : \A keyword \in BlankKeywords :
               ~KeywordMatches(keyword, sentences[c][n])
        /\ Done(c) =>
               \A i \in 1..Len(clauses) :
                   (\A k \in 1..Len(clauses[i].keywords) : IsBlank(clauses[i].keywords[k]))
                   => /\ ~result[c].clauses[i].present
                      /\ result[c].clauses[i].risk_level = clauses[i].missing_risk

\* a text with sentences is reviewed against a clause whose keywords are all
\* blank and a clause without keywords
C10_Witness ==
    \E c \in Calls : \E i, j \in 1..Len(clauses) :
        /\ Done(c)
        /\ sentences[c] # <<>>
        /\ clauses[i].keywords # <<>>
        /\ \A k \in 1..Len(clauses[i].keywords) : IsBlank(clauses[i].keywords[k])
        /\ ~result[c].clauses[i].present
        /\ clauses[j].keywords = <<>>
        /\ ~result[c].clauses[j].present

====
